---- MODULE Spec2Model ----
(***************************************************************************)
(* State-machine model of extract_interpro_data.py: InterProScanPipeline.  *)
(*                                                                         *)
(* One run of process_proteins over a list of identifiers.  Every entry of *)
(* the list is one future of the thread pool; each future executes         *)
(* process_single_protein: fetch, submit, wait (the polling loop) and      *)
(* save.  The coordinator submits the futures, collects them as they       *)
(* complete and prints the summary.                                        *)
(*                                                                         *)
(* The remote services, the file system and the clock are the environment: *)
(* every HTTP response, every write outcome is an input drawn from a small *)
(* set.  Console output (print) is not modelled.  add_error and            *)
(* increment_stat run under self.lock, so each is one atomic step.         *)
(***************************************************************************)
EXTENDS Integers, Sequences, FiniteSets, TLC

\* ------------------------------------------------------------------ bounds
MaxIds == 2             \* longest identifier list
MaxWorkers == 2         \* largest max_workers
MaxWaitIntervals == 2   \* largest max_wait, in poll intervals
MaxThreads == 2         \* threads updating the statistics at the same time
MaxCalls == 2           \* add_error / increment_stat calls made by one thread
MaxArgs == 4            \* positional command-line arguments given to main

\* --------------------------------------------------------- program constants
check_interval == 30    \* seconds slept between two polls
HTTP_OK == 200

\* ------------------------------------------------------------ environment
Identifiers == {"P12345", "BADID"}

\* Optional[T]: None is the empty tuple, a value v is <<v>>.
None == << >>
Some(v) == <<v>>

\* An HTTP exchange: the request raised (timeout, connection error, invalid
\* JSON body), or it returned a status code and a body.  The body is the
\* stripped text as a tuple of its parts: the lines of a FASTA record, the job
\* id, the status token, the top-level keys of the JSON document.
Raised == [raise |-> TRUE, status_code |-> 0, body |-> << >>]
Http(code, body) == [raise |-> FALSE, status_code |-> code, body |-> body]
NoResponse == [raise |-> FALSE, status_code |-> 0, body |-> << >>]

FetchResponses ==
    { Http(HTTP_OK, <<">sp|P12345 Test protein", "MKT">>),
      Http(HTTP_OK, <<"">>),
      Http(404, <<"">>),
      Raised }

SubmitResponses ==
    { Http(HTTP_OK, <<"iprscan5-R1">>),
      Http(HTTP_OK, <<"">>),
      Http(500, <<"error">>),
      Raised }

StatusTokens == {"RUNNING", "FINISHED", "ERROR", "FAILURE", "QUEUED"}

StatusResponses ==
    { Http(HTTP_OK, <<t>>) : t \in StatusTokens } \cup { Http(503, <<"">>), Raised }

\* JSON documents: the empty object and an object with a "results" key.
EmptyDoc == << >>
ResultsDoc == <<"results">>

ResultResponses ==
    { Http(HTTP_OK, ResultsDoc), Http(HTTP_OK, EmptyDoc), Http(404, << >>), Raised }

\* ------------------------------------------------------- shared statistics
\* self.stats after __init__
InitStats ==
    [ total |-> 0, sequences_fetched |-> 0, interproscan_submitted |-> 0,
      interproscan_completed |-> 0, failed |-> 0, errors |-> << >> ]

\* an entry of stats['errors']: f"{uniprot_id}: {msg}"
Entry(uniprot_id, msg) == [id |-> uniprot_id, msg |-> msg]

add_error(s, error) == [s EXCEPT !.errors = Append(@, error)]

increment_stat(s, stat_name) == [s EXCEPT ![stat_name] = @ + 1]

\* What one call leaves behind: its return value, and the one statistics
\* update it makes under the lock (a counter increment or an error entry).
Effect(ret, stat, error) == [ret |-> ret, stat |-> stat, error |-> error]

\* faulty variant: the error entry is appended twice
ApplyEffect_LogsTwice(s, e) ==
    LET s1 == IF e.stat # None THEN increment_stat(s, e.stat[1]) ELSE s
    IN  IF e.error # None THEN add_error(add_error(s1, e.error[1]), e.error[1])
        ELSE s1

ApplyEffect(s, e) ==
    LET s1 == IF e.stat # None THEN increment_stat(s, e.stat[1]) ELSE s
    IN  IF e.error # None THEN add_error(s1, e.error[1]) ELSE s1

\* Python truthiness of the three Optional values the pipeline tests.
TruthyTuple(opt) == opt # None                      \* a 2-tuple is never empty
TruthyStr(opt) == opt # None /\ opt[1] # ""
TruthyDict(opt) == opt # None /\ opt[1] # EmptyDoc

\* ------------------------------------------------------------ the stages
\* faulty variant: a fetched sequence is not counted
fetch_uniprot_sequence_NoCount(uniprot_id, r) ==
    IF r.raise
    THEN Effect(None, None, Some(Entry(uniprot_id, "UniProt fetch error")))
    ELSE IF r.status_code = HTTP_OK /\ Len(r.body) >= 2
         THEN Effect(Some(<<Tail(r.body), Head(r.body)>>), None, None)
         ELSE Effect(None, None, Some(Entry(uniprot_id, "UniProt fetch failed")))

fetch_uniprot_sequence(uniprot_id, r) ==
    IF r.raise
    THEN Effect(None, None, Some(Entry(uniprot_id, "UniProt fetch error")))
    ELSE IF r.status_code = HTTP_OK
         THEN LET lines == r.body
              IN  IF Len(lines) >= 2
                  THEN Effect(Some(<<Tail(lines), Head(lines)>>),
                              Some("sequences_fetched"), None)
                  ELSE Effect(None, None,
                              Some(Entry(uniprot_id, "Invalid FASTA format")))
         ELSE Effect(None, None, Some(Entry(uniprot_id, "UniProt fetch failed")))

submit_to_interproscan(uniprot_id, r) ==
    IF r.raise
    THEN Effect(None, None,
                Some(Entry(uniprot_id, "InterProScan submission error")))
    ELSE IF r.status_code = HTTP_OK
         THEN Effect(Some(r.body[1]), Some("interproscan_submitted"), None)
         ELSE Effect(None, None,
                     Some(Entry(uniprot_id, "InterProScan submission failed")))

check_job_status(r) ==
    IF r.raise THEN "ERROR"
    ELSE IF r.status_code = HTTP_OK THEN r.body[1] ELSE "ERROR"

get_interproscan_results(r) ==
    IF r.raise THEN None
    ELSE IF r.status_code = HTTP_OK THEN Some(r.body) ELSE None

JobFailedMsg(status) ==
    IF status = "ERROR" THEN "Job failed with status ERROR"
    ELSE "Job failed with status FAILURE"

\* faulty variant: FAILURE is not recognized as a failure status
IsFailed_ErrorOnly(status) == status = "ERROR"

\* faulty variant: every status but RUNNING counts as a failure
IsFailed_AnyOther(status) == status # "RUNNING"

\* How the loop body of wait_for_completion reads a status.
IsFinished(status) == status = "FINISHED"
IsFailed(status) == status = "ERROR" \/ status = "FAILURE"

\* The FINISHED branch of wait_for_completion, given the retrieval's response.
finished_branch(uniprot_id, r) ==
    LET res == get_interproscan_results(r)
    IN  IF TruthyDict(res)
        THEN Effect(res, Some("interproscan_completed"), None)
        ELSE Effect(None, None,
                    Some(Entry(uniprot_id, "Failed to retrieve results")))

\* faulty variant: a failed write is also counted as a failed identifier
save_results_CountsFailure(uniprot_id, write_ok) ==
    IF write_ok THEN Effect(None, None, None)
    ELSE Effect(None, Some("failed"), Some(Entry(uniprot_id, "Save error")))

\* save_results: both files written, or the write raised and is logged.
save_results(uniprot_id, write_ok) ==
    IF write_ok THEN Effect(None, None, None)
    ELSE Effect(None, None, Some(Entry(uniprot_id, "Save error")))

\* ------------------------------------------------------------------ state
VARIABLES
    ids,          \* uniprot_ids, the list read from the input file
    max_workers,  \* process_proteins' max_workers
    max_wait,     \* wait_for_completion's max_wait, in seconds
    stats,        \* self.stats
    mainpc,       \* where the coordinator (process_proteins) is
    submitted,    \* number of executor.submit calls made so far
    collected,    \* the futures as_completed has yielded
    cur,          \* the future whose exception the coordinator is handling
    task,         \* per future: pc and the locals of process_single_protein
    obs,          \* per future: what it has called and updated so far
    lock,         \* self.lock: 0 when free, else the thread holding it
    threads,      \* per thread: where it is inside add_error / increment_stat
    made,         \* per counter: the add_error / increment_stat calls made
    cli           \* the process running main(): sys.argv, output, exit status

vars == <<ids, max_workers, max_wait, stats, mainpc, submitted, collected, cur,
          task, obs, lock, threads, made, cli>>

Futures == 1..Len(ids)

\* Stages of one future.  "pending": not yet handed to the executor;
\* "queued": in the pool's work queue; "fetch" .. "save": inside
\* process_single_protein, about to run that statement; "returned" and
\* "raised": the future is done.
StartedPcs == {"fetch", "submit", "wait_enter", "wait", "fail", "save"}
DonePcs == {"returned", "raised"}

InitTask ==
    [ pc |-> "pending", sequence_data |-> None, job_id |-> None,
      status |-> "", results |-> None, elapsed |-> 0,
      request |-> "", response |-> NoResponse, result |-> None ]

Stages == {"schedule", "start", "fetch", "submit", "poll", "retrieve", "save"}
Counters == {"sequences_fetched", "interproscan_submitted",
             "interproscan_completed", "failed", "errors"}

InitObs ==
    [ calls |-> [st \in Stages |-> 0],
      updates |-> [c \in Counters |-> 0],
      failed_stage |-> "",
      wait_outcome |-> "" ]

\* bookkeeping of an effect in obs
Noted(o, stage, e) ==
    [o EXCEPT !.calls[stage] = @ + 1,
              !.updates = [c \in Counters |->
                  IF e.stat # None /\ e.stat[1] = c THEN @[c] + 1
                  ELSE IF e.error # None /\ c = "errors" THEN @[c] + 1
                  ELSE @[c]]]

\* The lock-level view (SpecLock) and main() (SpecMain) have their own
\* specifications; in a run of process_proteins (Spec) every statistics update
\* is one atomic step and these variables rest.
NoThreads == << >>
NoCalls == [c \in Counters |-> 0]

\* command-line words, as sequences of characters
Words == { << >>, <<"a">>, <<"a", "@", "b">>, <<"a", ".", "b">>,
           <<"a", "@", "b", ".", "c">> }
Script == <<"p", "y">>
ValidArgv == <<Script, <<"a">>, <<"a">>, <<"a", "@", "b", ".", "c">>>>
NoCli == [pc |-> "constructed", argv |-> ValidArgv, printed |-> "",
          exit_status |-> None]

LockLevel == <<lock, threads, made>>

LockLevelRests == lock = 0 /\ threads = NoThreads /\ made = NoCalls

IdLists == UNION { [1..n -> Identifiers] : n \in 0..MaxIds }

Init ==
    /\ ids \in IdLists
    /\ max_workers \in 1..MaxWorkers
    /\ max_wait \in { k * check_interval : k \in 0..MaxWaitIntervals }
    /\ stats = InitStats
    /\ mainpc = "start"
    /\ submitted = 0
    /\ collected = {}
    /\ cur = 0
    /\ task = [i \in Futures |-> InitTask]
    /\ obs = [i \in Futures |-> InitObs]
    /\ LockLevelRests
    /\ cli = NoCli

\* what no step of process_proteins changes
Params == <<ids, max_workers, max_wait, LockLevel, cli>>
Coordinator == <<mainpc, submitted, collected, cur>>

\* --------------------------------------------------------- the coordinator
\* uniprot_ids = self.read_uniprot_ids(...); self.stats['total'] = len(...)
ReadIds ==
    /\ mainpc = "start"
    /\ stats' = [stats EXCEPT !.total = Len(ids)]
    /\ mainpc' = "submitting"
    /\ UNCHANGED <<Params, submitted, collected, cur, task, obs>>

\* one executor.submit(self.process_single_protein, uniprot_id) of the dict
\* comprehension, in list order
ExecutorSubmit ==
    /\ mainpc = "submitting"
    /\ submitted < Len(ids)
    /\ submitted' = submitted + 1
    /\ task' = [task EXCEPT ![submitted + 1].pc = "queued"]
    /\ obs' = [obs EXCEPT ![submitted + 1].calls["schedule"] = @ + 1]
    /\ UNCHANGED <<Params, stats, mainpc, collected, cur>>

\* the comprehension is complete: enter the as_completed loop
StartCollecting ==
    /\ mainpc = "submitting"
    /\ submitted = Len(ids)
    /\ mainpc' = "collecting"
    /\ UNCHANGED <<Params, stats, submitted, collected, cur, task, obs>>

\* ----------------------------------------------------------------- the pool
Executing == { i \in Futures : task[i].pc \in StartedPcs }

\* faulty variant: the pool admits one thread too many
PoolHasFreeWorker_OffByOne == Cardinality(Executing) <= max_workers

\* faulty variant: no work item is taken while some worker is in its wait loop
PoolHasFreeWorker_NoneWaiting ==
    /\ Cardinality(Executing) < max_workers
    /\ \A j \in Futures : task[j].pc # "wait"

\* A pool thread is free to take a work item.
PoolHasFreeWorker == Cardinality(Executing) < max_workers

\* The work queue is first in, first out.
HeadOfQueue(i) ==
    /\ task[i].pc = "queued"
    /\ \A j \in Futures : j < i => task[j].pc # "queued"

\* a pool thread takes future i and calls process_single_protein
StartFuture(i) ==
    /\ HeadOfQueue(i)
    /\ PoolHasFreeWorker
    /\ task' = [task EXCEPT ![i].pc = "fetch"]
    /\ obs' = [obs EXCEPT ![i].calls["start"] = @ + 1]
    /\ UNCHANGED <<Params, stats, Coordinator>>

\* ------------------------------------------------- process_single_protein
\* faulty variant: the early return after a failed fetch is missing
AfterFetch_NoReturn(ok) == "submit"

\* if not sequence_data: (increment failed) return False; else go on to step 2
AfterFetch(ok) == IF ok THEN "submit" ELSE "fail"

\* if not job_id: ... return False; else go on to step 3
AfterSubmit(ok) == IF ok THEN "wait_enter" ELSE "fail"

\* if not results: ... return False; else go on to step 4
\* faulty variant: a job that did not finish is submitted again
AfterWait_Resubmit(ok) == IF ok THEN "save" ELSE "submit"

\* faulty variant: the loop is not left when the wait has ended without result
AfterWait_KeepsPolling(ok) == IF ok THEN "save" ELSE "wait"

AfterWait(ok) == IF ok THEN "save" ELSE "fail"

\* the stage function returned a falsy value at `stage`
Short(o, stage) == [o EXCEPT !.failed_stage = stage]

\* Step 1: sequence_data = self.fetch_uniprot_sequence(uniprot_id)
Fetch(i) ==
    /\ task[i].pc = "fetch"
    /\ \E r \in FetchResponses :
         LET e == fetch_uniprot_sequence(ids[i], r)
             ok == TruthyTuple(e.ret)
         IN  /\ stats' = ApplyEffect(stats, e)
             /\ task' = [task EXCEPT ![i].request = "fetch",
                                     ![i].response = r,
                                     ![i].sequence_data = e.ret,
                                     ![i].pc = AfterFetch(ok)]
             /\ obs' = [obs EXCEPT ![i] =
                          IF ok THEN Noted(@, "fetch", e)
                          ELSE Short(Noted(@, "fetch", e), "fetch")]
    /\ UNCHANGED <<Params, Coordinator>>

\* Step 2: job_id = self.submit_to_interproscan(uniprot_id, sequence)
Submit(i) ==
    /\ task[i].pc = "submit"
    /\ \E r \in SubmitResponses :
         LET e == submit_to_interproscan(ids[i], r)
             ok == TruthyStr(e.ret)
         IN  /\ stats' = ApplyEffect(stats, e)
             /\ task' = [task EXCEPT ![i].request = "run",
                                     ![i].response = r,
                                     ![i].job_id = e.ret,
                                     ![i].pc = AfterSubmit(ok)]
             /\ obs' = [obs EXCEPT ![i] =
                          IF ok THEN Noted(@, "submit", e)
                          ELSE Short(Noted(@, "submit", e), "submit")]
    /\ UNCHANGED <<Params, Coordinator>>

\* faulty variant: return False without counting the failure
Fail_NoIncrement(i) ==
    /\ task[i].pc = "fail"
    /\ task' = [task EXCEPT ![i] =
                  [InitTask EXCEPT !.pc = "returned", !.result = Some(FALSE)]]
    /\ UNCHANGED <<Params, stats, Coordinator, obs>>

\* self.increment_stat('failed'); return False
Fail(i) ==
    /\ task[i].pc = "fail"
    /\ stats' = increment_stat(stats, "failed")
    /\ task' = [task EXCEPT ![i] =
                  [InitTask EXCEPT !.pc = "returned", !.result = Some(FALSE)]]
    /\ obs' = [obs EXCEPT ![i].updates["failed"] = @ + 1]
    /\ UNCHANGED <<Params, Coordinator>>

\* Step 4: self.save_results(...); return True
Save(i) ==
    /\ task[i].pc = "save"
    /\ \E write_ok \in BOOLEAN :
         LET e == save_results(ids[i], write_ok)
         IN  /\ stats' = ApplyEffect(stats, e)
             /\ obs' = [obs EXCEPT ![i] = Noted(@, "save", e)]
    /\ task' = [task EXCEPT ![i] =
                  [InitTask EXCEPT !.pc = "returned", !.result = Some(TRUE)]]
    /\ UNCHANGED <<Params, Coordinator>>

\* ---------------------------------------------------- wait_for_completion
\* start_time = time.time(); check_interval = 30
WaitEnter(i) ==
    /\ task[i].pc = "wait_enter"
    /\ task' = [task EXCEPT ![i].pc = "wait", ![i].elapsed = 0]
    /\ UNCHANGED <<Params, stats, Coordinator, obs>>

\* The statements of wait_for_completion run outside any try block: a fault
\* there leaves process_single_protein as an uncaught exception, which the
\* future stores.
WaitRaise(i) ==
    /\ task[i].pc = "wait_enter"
    /\ task' = [task EXCEPT ![i] = [InitTask EXCEPT !.pc = "raised"]]
    /\ UNCHANGED <<Params, stats, Coordinator, obs>>

\* faulty variant: the loop condition is <= instead of <
LoopGuard_OffByOne(i) == task[i].elapsed <= max_wait

\* faulty variant: the loop has no time limit
LoopGuard_Forever(i) == task[i].elapsed >= 0

\* while time.time() - start_time < max_wait
LoopGuard(i) == task[i].elapsed < max_wait

\* wait_for_completion returned None after `outcome`
WaitFailed(o, outcome) == [Short(o, "wait") EXCEPT !.wait_outcome = outcome]

Polled(o) == [o EXCEPT !.calls["poll"] = @ + 1]

\* the loop ended: add_error("Timed out ..."); return None
Timeout(i) ==
    /\ task[i].pc = "wait"
    /\ ~LoopGuard(i)
    /\ stats' = add_error(stats, Entry(ids[i], "Timed out"))
    /\ task' = [task EXCEPT ![i].results = None, ![i].pc = AfterWait(FALSE)]
    /\ obs' = [obs EXCEPT ![i] =
                 WaitFailed([@ EXCEPT !.updates["errors"] = @ + 1], "timed_out")]
    /\ UNCHANGED <<Params, Coordinator>>

\* One pass of the loop body that sees FINISHED:
\* status = self.check_job_status(job_id); if status == "FINISHED":
\* results = self.get_interproscan_results(job_id); if results: ... else: ...
Finished(i) ==
    /\ task[i].pc = "wait"
    /\ LoopGuard(i)
    /\ \E q \in StatusResponses, r \in ResultResponses :
         LET status == check_job_status(q)
             e == finished_branch(ids[i], r)
             ok == TruthyDict(e.ret)
         IN  /\ IsFinished(status)
             /\ stats' = ApplyEffect(stats, e)
             /\ task' = [task EXCEPT ![i].status = status,
                                     ![i].request = "result",
                                     ![i].response = r,
                                     ![i].results = e.ret,
                                     ![i].pc = AfterWait(ok)]
             /\ obs' = [obs EXCEPT ![i] =
                          IF ok
                          THEN [Noted(Polled(@), "retrieve", e)
                                  EXCEPT !.wait_outcome = "finished"]
                          ELSE WaitFailed(Noted(Polled(@), "retrieve", e),
                                          "retrieval_failed")]
    /\ UNCHANGED <<Params, Coordinator>>

\* One pass that sees a failure status:
\* elif status == "ERROR" or status == "FAILURE": add_error(...); return None
JobFailed(i) ==
    /\ task[i].pc = "wait"
    /\ LoopGuard(i)
    /\ \E q \in StatusResponses :
         LET status == check_job_status(q)
         IN  /\ ~IsFinished(status)
             /\ IsFailed(status)
             /\ stats' = add_error(stats, Entry(ids[i], JobFailedMsg(status)))
             /\ task' = [task EXCEPT ![i].status = status,
                                     ![i].request = "status",
                                     ![i].response = q,
                                     ![i].results = None,
                                     ![i].pc = AfterWait(FALSE)]
    /\ obs' = [obs EXCEPT ![i] =
                 WaitFailed([Polled(@) EXCEPT !.updates["errors"] = @ + 1],
                            "failed")]
    /\ UNCHANGED <<Params, Coordinator>>

\* One pass that sees any other status:
\* elif status == "RUNNING": ... else: ...  both: time.sleep(check_interval)
Sleep(i) ==
    /\ task[i].pc = "wait"
    /\ LoopGuard(i)
    /\ \E q \in StatusResponses :
         LET status == check_job_status(q)
         IN  /\ ~IsFinished(status)
             /\ ~IsFailed(status)
             /\ task' = [task EXCEPT ![i].status = status,
                                     ![i].request = "status",
                                     ![i].response = q,
                                     ![i].elapsed = @ + check_interval]
    /\ obs' = [obs EXCEPT ![i] = Polled(@)]
    /\ UNCHANGED <<Params, stats, Coordinator>>

\* ------------------------------------------------- collecting the futures
Done(i) == task[i].pc \in DonePcs

\* as_completed yields a future that returned: success = future.result()
CollectResult(i) ==
    /\ mainpc = "collecting"
    /\ i \notin collected
    /\ task[i].pc = "returned"
    /\ collected' = collected \cup {i}
    /\ UNCHANGED <<Params, stats, mainpc, submitted, cur, task, obs>>

\* future.result() raises: except Exception: self.add_error(...)
CollectException(i) ==
    /\ mainpc = "collecting"
    /\ i \notin collected
    /\ task[i].pc = "raised"
    /\ collected' = collected \cup {i}
    /\ stats' = add_error(stats, Entry(ids[i], "Exception"))
    /\ obs' = [obs EXCEPT ![i].updates["errors"] = @ + 1]
    /\ mainpc' = "except"
    /\ cur' = i
    /\ UNCHANGED <<Params, submitted, task>>

\* faulty variant: the except clause logs the exception but does not count it
ExceptIncrement_NoIncrement ==
    /\ mainpc = "except"
    /\ mainpc' = "collecting"
    /\ cur' = 0
    /\ UNCHANGED <<Params, stats, submitted, collected, task, obs>>

\* ... self.increment_stat('failed'), still inside the except clause
ExceptIncrement ==
    /\ mainpc = "except"
    /\ stats' = increment_stat(stats, "failed")
    /\ obs' = [obs EXCEPT ![cur].updates["failed"] = @ + 1]
    /\ mainpc' = "collecting"
    /\ cur' = 0
    /\ UNCHANGED <<Params, submitted, collected, task>>

\* every future was yielded, the executor has shut down: self.print_summary()
PrintSummary ==
    /\ mainpc = "collecting"
    /\ collected = Futures
    /\ mainpc' = "summary"
    /\ UNCHANGED <<Params, stats, submitted, collected, cur, task, obs>>

Next ==
    \/ ReadIds
    \/ ExecutorSubmit
    \/ StartCollecting
    \/ PrintSummary
    \/ ExceptIncrement
    \/ \E i \in Futures :
         \/ StartFuture(i)
         \/ Fetch(i)
         \/ Submit(i)
         \/ WaitEnter(i)
         \/ WaitRaise(i)
         \/ Timeout(i)
         \/ Finished(i)
         \/ JobFailed(i)
         \/ Sleep(i)
         \/ Fail(i)
         \/ Save(i)
         \/ CollectResult(i)
         \/ CollectException(i)

Spec == Init /\ [][Next]_vars

\* The operating system schedules every thread and every remote call
\* returns: a run does not stop while some step is possible.
FairSpec == Spec /\ WF_vars(Next)

\* ------------------------------------------------------------------ main
\* sys.argv is indexed from 0: sys.argv[k] is argv[k + 1] here.
ArgLists == UNION { [1..n -> Words] : n \in 0..MaxArgs }

\* ch in word
In(ch, word) == \E k \in 1..Len(word) : word[k] = ch

\* if '@' not in email or '.' not in email
InvalidEmail(email) == ~In("@", email) \/ ~In(".", email)

Pipeline == <<ids, max_workers, max_wait, stats, mainpc, submitted, collected,
              cur, task, obs>>

\* no pipeline object exists, or none is running process_proteins
PipelineRests ==
    /\ ids = << >> /\ max_workers = 1 /\ max_wait = 0
    /\ stats = InitStats
    /\ mainpc = "start" /\ submitted = 0 /\ collected = {} /\ cur = 0
    /\ task = << >> /\ obs = << >>

InitMain ==
    /\ cli \in { [pc |-> "main", argv |-> <<Script>> \o a, printed |-> "",
                  exit_status |-> None] : a \in ArgLists }
    /\ PipelineRests
    /\ LockLevelRests

Exit(c, message) ==
    [c EXCEPT !.pc = "exited", !.printed = message, !.exit_status = Some(1)]

\* if len(sys.argv) < 3: print usage; sys.exit(1)
MainUsage ==
    /\ cli.pc = "main"
    /\ Len(cli.argv) < 3
    /\ cli' = Exit(cli, "usage")
    /\ UNCHANGED <<Pipeline, LockLevel>>

MainArgcAccepted ==
    /\ cli.pc = "main"
    /\ ~(Len(cli.argv) < 3)
    /\ cli' = [cli EXCEPT !.pc = "read_args"]
    /\ UNCHANGED <<Pipeline, LockLevel>>

\* input_file = sys.argv[1]; output_dir = sys.argv[2]; email = sys.argv[3]
\* sys.argv[3] raises IndexError when the list has three elements; nothing
\* catches it: the interpreter prints a traceback and exits with status 1
MainReadArgs ==
    /\ cli.pc = "read_args"
    /\ cli' = IF Len(cli.argv) >= 4
              THEN [cli EXCEPT !.pc = "validate"]
              ELSE Exit(cli, "traceback")
    /\ UNCHANGED <<Pipeline, LockLevel>>

\* print("Please provide a valid email address"); sys.exit(1)
MainInvalidEmail ==
    /\ cli.pc = "validate"
    /\ InvalidEmail(cli.argv[4])
    /\ cli' = Exit(cli, "invalid email")
    /\ UNCHANGED <<Pipeline, LockLevel>>

\* pipeline = InterProScanPipeline(output_dir, email)
MainConstruct ==
    /\ cli.pc = "validate"
    /\ ~InvalidEmail(cli.argv[4])
    /\ cli' = [cli EXCEPT !.pc = "constructed"]
    /\ UNCHANGED <<Pipeline, LockLevel>>

NextMain ==
    \/ MainUsage
    \/ MainArgcAccepted
    \/ MainReadArgs
    \/ MainInvalidEmail
    \/ MainConstruct

SpecMain == InitMain /\ [][NextMain]_vars

\* ------------------------------------------------- the statistics lock
\* The threads that call add_error / increment_stat: the pool's workers and
\* the coordinator. A thread is outside the two methods (computing, in a
\* network call, asleep between polls) or inside one of them.
Threads == 1..MaxThreads

\* increment_stat is the same code for every counter: two counters show both
\* updates of one counter colliding and updates of different counters
StatNames == {"sequences_fetched", "failed"}

InCriticalSection == {"load", "store", "append", "release"}

InitThread == [pc |-> "outside", op |-> "", tmp |-> 0, calls |-> 0, msgs |-> {}]

InitLock ==
    /\ lock = 0
    /\ threads = [t \in Threads |-> InitThread]
    /\ made = NoCalls
    /\ PipelineRests
    /\ cli = NoCli

LockRest == <<ids, max_workers, max_wait, mainpc, submitted, collected, cur,
              task, obs, cli>>

\* self.increment_stat(stat_name) is called
CallIncrement(t) ==
    /\ threads[t].pc = "outside"
    /\ threads[t].calls < MaxCalls
    /\ \E stat_name \in StatNames :
         /\ threads' = [threads EXCEPT ![t].pc = "acquire", ![t].op = stat_name]
         /\ made' = [made EXCEPT ![stat_name] = @ + 1]
    /\ UNCHANGED <<lock, stats, LockRest>>

\* self.add_error(error) is called; the message is the thread's calls-th
CallAddError(t) ==
    /\ threads[t].pc = "outside"
    /\ threads[t].calls < MaxCalls
    /\ threads' = [threads EXCEPT ![t].pc = "acquire", ![t].op = "errors",
                                  ![t].msgs = @ \cup {threads[t].calls + 1}]
    /\ made' = [made EXCEPT !["errors"] = @ + 1]
    /\ UNCHANGED <<lock, stats, LockRest>>

\* faulty variant: the method is entered without taking the lock
Acquire_NoExclusion(t) ==
    /\ threads[t].pc = "acquire"
    /\ lock' = t
    /\ threads' = [threads EXCEPT ![t].pc =
                      IF threads[t].op = "errors" THEN "append" ELSE "load"]
    /\ UNCHANGED <<stats, made, LockRest>>

\* with self.lock: (entering)
Acquire(t) ==
    /\ threads[t].pc = "acquire"
    /\ lock = 0
    /\ lock' = t
    /\ threads' = [threads EXCEPT ![t].pc =
                      IF threads[t].op = "errors" THEN "append" ELSE "load"]
    /\ UNCHANGED <<stats, made, LockRest>>

\* self.stats[stat_name] += 1 reads the counter ...
Load(t) ==
    /\ threads[t].pc = "load"
    /\ threads' = [threads EXCEPT ![t].pc = "store",
                                  ![t].tmp = stats[threads[t].op]]
    /\ UNCHANGED <<lock, stats, made, LockRest>>

\* ... and writes it back, incremented
Store(t) ==
    /\ threads[t].pc = "store"
    /\ stats' = [stats EXCEPT ![threads[t].op] = threads[t].tmp + 1]
    /\ threads' = [threads EXCEPT ![t].pc = "release"]
    /\ UNCHANGED <<lock, made, LockRest>>

\* self.stats['errors'].append(error)
AppendError(t) ==
    /\ threads[t].pc = "append"
    /\ stats' = add_error(stats, Entry(t, threads[t].calls + 1))
    /\ threads' = [threads EXCEPT ![t].pc = "release"]
    /\ UNCHANGED <<lock, made, LockRest>>

\* faulty variant: the method returns with the lock still held
Release_KeepsLock(t) ==
    /\ threads[t].pc = "release"
    /\ threads' = [threads EXCEPT ![t].pc = "outside", ![t].op = "",
                                  ![t].tmp = 0, ![t].calls = @ + 1]
    /\ UNCHANGED <<lock, stats, made, LockRest>>

\* with self.lock: (leaving); the method returns
Release(t) ==
    /\ threads[t].pc = "release"
    /\ lock' = 0
    /\ threads' = [threads EXCEPT ![t].pc = "outside", ![t].op = "",
                                  ![t].tmp = 0, ![t].calls = @ + 1]
    /\ UNCHANGED <<stats, made, LockRest>>

NextLock ==
    \E t \in Threads :
        \/ CallIncrement(t)
        \/ CallAddError(t)
        \/ Acquire(t)
        \/ Load(t)
        \/ Store(t)
        \/ AppendError(t)
        \/ Release(t)

SpecLock == InitLock /\ [][NextLock]_vars

\* ================================================================ claims
Log == stats.errors

\* number of error-log entries naming `id` with a message among `msgs`
CountEntries(id, msgs) ==
    Cardinality({ k \in 1..Len(Log) : Log[k].id = id /\ Log[k].msg \in msgs })

\* the locals of wait_for_completion / process_single_protein are still live
InPipeline(i) == task[i].pc \in StartedPcs

AllDone == \A i \in Futures : Done(i)

\* C1: after the run, interproscan_completed + failed = total, and every
\* list entry (duplicates included) has updated exactly one of the two
\* counters, exactly once.
C1_CompletedPlusFailedIsTotal ==
    mainpc = "summary" =>
        /\ stats.interproscan_completed + stats.failed = stats.total
        /\ stats.total = Len(ids)
        /\ \A i \in Futures :
             obs[i].updates["interproscan_completed"] + obs[i].updates["failed"] = 1

\* a finished run over a duplicated identifier: one entry completed, the other
\* raised an uncaught exception
C1_Witness ==
    /\ mainpc = "summary"
    /\ Len(ids) = 2 /\ ids[1] = ids[2]
    /\ stats.interproscan_completed = 1
    /\ \E i \in Futures : task[i].pc = "raised"

\* C2: the number of process_single_protein invocations that have started and
\* not yet returned never exceeds max_workers.
C2_ConcurrencyCap == Cardinality(Executing) <= max_workers

\* the pool is full while another future waits in the queue
C2_Witness ==
    /\ Cardinality(Executing) = max_workers
    /\ \E i \in Futures : task[i].pc = "queued"

\* the last HTTP exchange of future i was a status query that raised
StatusQueryRaised(i) ==
    /\ InPipeline(i)
    /\ task[i].request = "status"
    /\ task[i].response.raise

\* C3: a status query that suffers a transport error yields a transient
\* status and does not end the wait loop: the future is still in the loop,
\* about to poll again, with no error logged for the wait.
C3_TransportErrorKeepsPolling ==
    \A i \in Futures :
        StatusQueryRaised(i) =>
            /\ task[i].pc = "wait"
            /\ ~IsFailed(task[i].status)
            /\ obs[i].wait_outcome = ""

\* C4: the stages run in the order fetch, submit, wait, save, each at most
\* once and never backwards; after a failed stage no later stage is called,
\* and the outcome is False.
C4_StagesInOrderAndShortCircuit ==
    \A i \in Futures :
        LET c == obs[i].calls
            f == obs[i].failed_stage
        IN  /\ c["fetch"] <= 1 /\ c["submit"] <= 1
            /\ c["retrieve"] <= 1 /\ c["save"] <= 1
            /\ c["submit"] > 0 => c["fetch"] > 0
            /\ c["poll"] > 0 => c["submit"] > 0
            /\ c["retrieve"] > 0 => c["poll"] > 0
            /\ c["save"] > 0 => c["retrieve"] > 0
            /\ f = "fetch" =>
                 c["submit"] = 0 /\ c["poll"] = 0 /\ c["retrieve"] = 0 /\ c["save"] = 0
            /\ f = "submit" => c["poll"] = 0 /\ c["retrieve"] = 0 /\ c["save"] = 0
            /\ f = "wait" => c["save"] = 0
            /\ (f # "" /\ Done(i)) => task[i].result = Some(FALSE)
            /\ (task[i].result = Some(TRUE)) => (f = "" /\ c["save"] = 1)

\* all futures are done: one stopped at its submit stage, one went through save
C4_Witness ==
    /\ AllDone
    /\ \E i \in Futures : obs[i].failed_stage = "submit"
    /\ \E i \in Futures : obs[i].calls["save"] = 1

\* the result retrieval of future i returned HTTP 200 with a JSON document
RetrievalSucceeded(i) ==
    /\ InPipeline(i)
    /\ task[i].request = "result"
    /\ ~task[i].response.raise
    /\ task[i].response.status_code = HTTP_OK

\* C5: after Running* then Finished within max_wait and a successful result
\* retrieval (HTTP 200, a JSON document of any content), wait_for_completion
\* returns that document and interproscan_completed is incremented once.
C5_FinishedReturnsDocument ==
    \A i \in Futures :
        RetrievalSucceeded(i) =>
            /\ task[i].results = Some(task[i].response.body)
            /\ obs[i].updates["interproscan_completed"] = 1
            /\ obs[i].wait_outcome = "finished"

\* the status endpoint itself reported ERROR or FAILURE for future i's job
RemoteReportedFailure(i) ==
    /\ InPipeline(i)
    /\ task[i].request = "status"
    /\ ~task[i].response.raise
    /\ task[i].response.status_code = HTTP_OK
    /\ task[i].response.body[1] \in {"ERROR", "FAILURE"}

\* C6: a remote-reported failure ends the wait with no result; the
\* identifier's outcome is False, failed is incremented exactly once and
\* interproscan_completed not at all.
C6_RemoteFailureFailsOnce ==
    \A i \in Futures :
        /\ RemoteReportedFailure(i) =>
             /\ task[i].pc = "fail"
             /\ task[i].results = None
             /\ obs[i].wait_outcome = "failed"
        /\ obs[i].wait_outcome = "failed" =>
             /\ obs[i].updates["interproscan_completed"] = 0
             /\ obs[i].calls["retrieve"] = 0 /\ obs[i].calls["save"] = 0
             /\ task[i].pc \in {"fail", "returned"}
             /\ task[i].pc = "fail" => obs[i].updates["failed"] = 0
             /\ task[i].pc = "returned" =>
                  task[i].result = Some(FALSE) /\ obs[i].updates["failed"] = 1

\* a job whose second poll reported FAILURE has returned False
C6_Witness ==
    \E i \in Futures :
        /\ obs[i].wait_outcome = "failed"
        /\ obs[i].calls["poll"] = 2
        /\ task[i].pc = "returned"
        /\ CountEntries(ids[i], {"Job failed with status FAILURE"}) > 0

\* futures of identifier id whose wait timed out
TimedOut(id) ==
    { i \in Futures : ids[i] = id /\ obs[i].wait_outcome = "timed_out" }

\* C7: when no terminal status is seen before elapsed reaches max_wait, the
\* wait times out: no result, one timeout entry naming the identifier, and
\* no status query is issued once elapsed >= max_wait (none at all when
\* max_wait = 0).
C7_TimeoutAfterMaxWait ==
    /\ \A i \in Futures :
         \* every status query was issued while elapsed < max_wait
         /\ obs[i].calls["poll"] > 0 =>
              (obs[i].calls["poll"] - 1) * check_interval < max_wait
         /\ max_wait = 0 => obs[i].calls["poll"] = 0
         \* a wait that is over with elapsed >= max_wait timed out
         /\ (task[i].pc \in {"fail", "save"} /\ obs[i].calls["submit"] = 1
             /\ TruthyStr(task[i].job_id) /\ task[i].elapsed >= max_wait) =>
              obs[i].wait_outcome = "timed_out"
         /\ obs[i].wait_outcome = "timed_out" =>
              /\ obs[i].calls["poll"] * check_interval >= max_wait
              /\ obs[i].calls["retrieve"] = 0
              /\ obs[i].updates["interproscan_completed"] = 0
              /\ obs[i].updates["errors"] = 1
              /\ task[i].pc = "fail" =>
                   task[i].results = None /\ task[i].elapsed >= max_wait
    /\ \A id \in Identifiers :
         CountEntries(id, {"Timed out"}) = Cardinality(TimedOut(id))

\* a job polled twice (RUNNING each time) and then timed out
C7_Witness ==
    \E i \in Futures :
        /\ obs[i].wait_outcome = "timed_out"
        /\ obs[i].calls["poll"] = 2
        /\ task[i].pc = "fail"
        /\ task[i].status = "RUNNING"

RecognizedTokens == {"RUNNING", "FINISHED", "ERROR", "FAILURE"}

\* the last status query of future i returned an unrecognized token
UnknownStatusSeen(i) ==
    /\ InPipeline(i)
    /\ task[i].request = "status"
    /\ ~task[i].response.raise
    /\ task[i].response.status_code = HTTP_OK
    /\ task[i].response.body[1] \notin RecognizedTokens

\* C8: an unrecognized status token never ends the wait loop by itself: the
\* loop sleeps and polls again, and is left only through a later FINISHED, a
\* later failure status, or the timeout.
C8_UnknownStatusIsRetried ==
    \A i \in Futures :
        /\ UnknownStatusSeen(i) =>
             /\ task[i].elapsed >= check_interval
             /\ \/ task[i].pc = "wait" /\ obs[i].wait_outcome = ""
                \/ /\ task[i].pc = "fail"
                   /\ obs[i].wait_outcome = "timed_out"
                   /\ task[i].elapsed >= max_wait
        /\ (InPipeline(i) /\ obs[i].wait_outcome \in {"finished", "retrieval_failed"})
             => task[i].status = "FINISHED"
        /\ (InPipeline(i) /\ obs[i].wait_outcome = "failed")
             => task[i].status \in {"ERROR", "FAILURE"}

\* a job answered QUEUED: the future slept and is back at the loop head
C8_Witness ==
    \E i \in Futures :
        /\ UnknownStatusSeen(i)
        /\ task[i].pc = "wait"
        /\ task[i].elapsed = check_interval
        /\ task[i].elapsed < max_wait

FetchFailureMsgs ==
    {"Invalid FASTA format", "UniProt fetch failed", "UniProt fetch error"}

\* list entries of identifier id whose fetch failed
FetchFailed(id) ==
    { i \in Futures : ids[i] = id /\ obs[i].failed_stage = "fetch" }

\* C9: a fetch failure of X is logged exactly once (one entry per failed
\* fetch, so one per list entry of X) and keeps no other list entry from
\* being scheduled and reaching its own outcome.
C9_FetchFailureIsolatedAndLoggedOnce ==
    /\ \A id \in Identifiers :
         CountEntries(id, FetchFailureMsgs) = Cardinality(FetchFailed(id))
    /\ \A i \in Futures :
         obs[i].failed_stage = "fetch" =>
            /\ obs[i].updates["errors"] = 1
            /\ obs[i].calls["fetch"] = 1
    /\ mainpc \in {"collecting", "except", "summary"} =>
         \A i \in Futures : task[i].pc # "pending"
    /\ mainpc = "summary" =>
         \A i \in Futures :
            /\ i \in collected
            /\ task[i].pc = "returned" => task[i].result \in {Some(TRUE), Some(FALSE)}
            /\ task[i].pc = "returned" /\ task[i].result = Some(TRUE)
                 => obs[i].updates["interproscan_completed"] = 1

\* the fetch of BADID failed and the other identifier still succeeded
C9_Witness ==
    /\ mainpc = "summary"
    /\ ids = <<"BADID", "P12345">>
    /\ obs[1].failed_stage = "fetch"
    /\ task[2].result = Some(TRUE)
    /\ CountEntries("BADID", {"UniProt fetch failed"}) = 1

\* list entries of identifier id whose pipeline raised
RaisedFutures(id) == { i \in Futures : ids[i] = id /\ task[i].pc = "raised" }

\* C10: an uncaught exception of one pipeline is caught when its future is
\* collected: one error entry naming the identifier, failed incremented
\* exactly once for it; the other pipelines reach their own outcome and the
\* run reaches the summary.
C10_ExceptionCaughtAtCoordinator ==
    /\ \A i \in Futures :
         (task[i].pc = "raised" /\ i \in collected /\ ~(mainpc = "except" /\ cur = i))
            => /\ obs[i].updates["errors"] = 1
               /\ obs[i].updates["failed"] = 1
               /\ obs[i].updates["interproscan_completed"] = 0
    /\ \A i \in Futures :
         (task[i].pc = "raised" /\ i \notin collected)
            => obs[i].updates["errors"] = 0 /\ obs[i].updates["failed"] = 0
    /\ mainpc = "summary" =>
         /\ \A id \in Identifiers :
              CountEntries(id, {"Exception"}) = Cardinality(RaisedFutures(id))
         /\ \A i \in Futures :
              /\ Done(i) /\ i \in collected
              /\ task[i].pc = "returned" =>
                   obs[i].updates["interproscan_completed"] + obs[i].updates["failed"] = 1
    \* a stored exception blocks nothing: until the summary some step is possible
    /\ ((\E i \in Futures : task[i].pc = "raised") /\ mainpc # "summary")
         => ENABLED Next

\* the summary is reached although the first pipeline raised; the second
\* one, started before the exception was collected, succeeded
C10_Witness ==
    /\ mainpc = "summary"
    /\ Len(ids) = 2
    /\ task[1].pc = "raised"
    /\ task[2].result = Some(TRUE)
    /\ stats.failed = 1 /\ stats.interproscan_completed = 1

\* list entries of identifier id whose output files could not be written
SaveFailed(id) ==
    { i \in Futures : ids[i] = id /\ obs[i].calls["save"] = 1
                                  /\ obs[i].updates["errors"] = 1 }

\* C12: when fetch, submission and wait succeeded and writing the output
\* files fails, the failure is logged (one "Save error" entry per failed
\* write) but the pipeline still returns True, its interproscan_completed
\* increment stands and failed is not incremented for it.
C12_SaveFailureStillSucceeds ==
    /\ \A id \in Identifiers :
         CountEntries(id, {"Save error"}) = Cardinality(SaveFailed(id))
    /\ \A i \in Futures :
         obs[i].calls["save"] = 1 =>
            /\ task[i].pc = "returned"
            /\ task[i].result = Some(TRUE)
            /\ obs[i].calls["fetch"] = 1 /\ obs[i].calls["submit"] = 1
            /\ obs[i].wait_outcome = "finished"
            /\ obs[i].updates["interproscan_completed"] = 1
            /\ obs[i].updates["failed"] = 0

\* a finished run in which the only entry's write failed: logged, counted as
\* completed, not as failed
C12_Witness ==
    /\ mainpc = "summary"
    /\ Len(ids) = 1
    /\ SaveFailed(ids[1]) = {1}
    /\ task[1].result = Some(TRUE)
    /\ Len(Log) = 1 /\ Log[1].msg = "Save error"
    /\ stats.interproscan_completed = 1 /\ stats.failed = 0

\* C13: every list entry is scheduled onto the pool exactly once and started
\* at most once; its fetch is attempted at most once and its job submitted at
\* most once, also after a failure or a timeout of the wait.
C13_NoStageRetried ==
    /\ \A i \in Futures :
         /\ obs[i].calls["schedule"] = (IF i <= submitted THEN 1 ELSE 0)
         /\ obs[i].calls["start"] <= 1
         /\ obs[i].calls["fetch"] <= 1
         /\ obs[i].calls["submit"] <= 1
         /\ obs[i].calls["start"] = 1 <=> task[i].pc \in StartedPcs \cup DonePcs
         /\ obs[i].wait_outcome \in {"failed", "timed_out", "retrieval_failed"}
               => task[i].pc \in {"fail", "returned"}
    /\ mainpc \in {"collecting", "except", "summary"} => submitted = Len(ids)
    /\ mainpc = "summary" =>
         \A i \in Futures : obs[i].calls["schedule"] = 1 /\ obs[i].calls["start"] = 1

\* a finished run in which one entry's wait timed out after one submission
C13_Witness ==
    /\ mainpc = "summary"
    /\ \E i \in Futures :
         /\ obs[i].wait_outcome = "timed_out"
         /\ obs[i].calls["submit"] = 1
         /\ obs[i].calls["fetch"] = 1
         /\ obs[i].calls["schedule"] = 1

\* C18: in every state of a run the counters are ordered:
\* interproscan_completed <= interproscan_submitted <= sequences_fetched <= total.
C18_CountersOrdered ==
    /\ stats.interproscan_completed <= stats.interproscan_submitted
    /\ stats.interproscan_submitted <= stats.sequences_fetched
    /\ stats.sequences_fetched <= stats.total

\* two entries fetched, one of them submitted, none completed yet
C18_Witness ==
    /\ stats.total = 2
    /\ stats.sequences_fetched = 2
    /\ stats.interproscan_submitted = 1
    /\ stats.interproscan_completed = 0

\* C19: in every state failed is at most the number of error-log entries:
\* every failure path logs an error before it increments failed.
C19_FailedHasLoggedReason == stats.failed <= Len(Log)

\* calls of thread-level add_error / increment_stat for counter c that have
\* been made and have not updated the statistics yet
Pending(c) ==
    Cardinality({ t \in Threads :
        /\ threads[t].op = c
        /\ threads[t].pc \in {"acquire", "load", "store", "append"} })

\* positions at which the log holds the k-th message of thread t
Logged(t, k) == { j \in 1..Len(Log) : Log[j] = Entry(t, k) }

\* C11: the statistics updates of concurrent threads exclude one another and
\* none is lost: at most one thread is inside add_error / increment_stat, every
\* counter equals the number of increment_stat calls made for it less those
\* still under way, and every message passed to add_error is in the log once;
\* so at the end of the run counters and log account for every call.
C11_NoLostUpdate ==
    /\ Cardinality({ t \in Threads : threads[t].pc \in InCriticalSection }) <= 1
    /\ \A c \in StatNames : stats[c] + Pending(c) = made[c]
    /\ Len(Log) + Pending("errors") = made["errors"]
    /\ \A t \in Threads : \A k \in threads[t].msgs :
         Cardinality(Logged(t, k)) = (IF k <= threads[t].calls THEN 1 ELSE
                                      IF threads[t].pc = "release" THEN 1 ELSE 0)

\* every thread has made all its calls, both threads have incremented failed
\* and both have logged an error
C11_Witness ==
    /\ \A t \in Threads : threads[t].pc = "outside" /\ threads[t].calls = MaxCalls
    /\ lock = 0
    /\ stats.failed = 2 /\ made["failed"] = 2
    /\ Len(Log) = 2 /\ Log[1].id # Log[2].id

\* what main was given: the positional arguments and, if present, the email
Positional == Len(cli.argv) - 1
MainEnded == cli.pc \in {"exited", "constructed"}

\* C14: with fewer than three positional arguments, or with an email lacking
\* '@' or '.', main prints the usage / validation message and exits with
\* non-zero status, and no pipeline is constructed.
C14_BadCommandLineIsControlled ==
    (MainEnded /\ (Positional < 3 \/ InvalidEmail(cli.argv[4]))) =>
        /\ cli.pc = "exited"
        /\ cli.printed \in {"usage", "invalid email"}
        /\ cli.exit_status # None /\ cli.exit_status # Some(0)

\* the thread holding the lock takes its next step inside the method
HolderStep ==
    \E t \in Threads :
        lock = t /\ (Load(t) \/ Store(t) \/ AppendError(t) \/ Release(t))

\* C20: the lock is held only inside one counter increment or one log append:
\* never by a thread that is outside the two methods (in a network call,
\* asleep between polls) or that is acquiring the lock; its holder can always
\* go on to release it, and a waiting thread enters once it is free.
C20_LockHeldOnlyForOneUpdate ==
    /\ \A t \in Threads :
         /\ lock = t => threads[t].pc \in InCriticalSection
         /\ threads[t].pc \in InCriticalSection => lock = t
    /\ lock # 0 => ENABLED HolderStep
    /\ \A t \in Threads :
         (threads[t].pc = "acquire" /\ lock = 0) => ENABLED Acquire(t)

\* one thread is writing a counter while another waits to update the same one
C20_Witness ==
    \E t, u \in Threads :
        /\ lock = t /\ threads[t].pc = "store"
        /\ threads[u].pc = "acquire" /\ threads[u].op = threads[t].op

\* the wait of future i has ended: on FINISHED (retrieval succeeded or not),
\* on ERROR / FAILURE, or by timeout
WaitEnded(i) == obs[i].wait_outcome # ""

\* no step issues a status query or a result retrieval for a job whose wait
\* has ended
NoQueryAfterWaitEnded ==
    \A i \in Futures :
        WaitEnded(i) =>
            /\ obs'[i].calls["poll"] = obs[i].calls["poll"]
            /\ obs'[i].calls["retrieve"] = obs[i].calls["retrieve"]
            /\ obs'[i].wait_outcome = obs[i].wait_outcome

\* FINISHED with a failed retrieval: no result, one error-log entry, no
\* interproscan_completed increment
RetrievalFailureYieldsNothing ==
    \A i \in Futures :
        obs[i].wait_outcome = "retrieval_failed" =>
            /\ task[i].pc \in {"fail", "returned"}
            /\ task[i].results = None
            /\ task[i].pc = "returned" => task[i].result = Some(FALSE)
            /\ obs[i].calls["retrieve"] = 1
            /\ obs[i].updates["errors"] = 1
            /\ obs[i].updates["interproscan_completed"] = 0

\* C15: the end states of the poller are absorbing: once wait_for_completion
\* has seen FINISHED (whether or not the retrieval succeeded), ERROR / FAILURE,
\* or has timed out, no further status query or result retrieval is issued for
\* that job; FINISHED with a failed retrieval yields no result, exactly one
\* error-log entry and no interproscan_completed increment.
C15_WaitOutcomesAbsorbing ==
    /\ [][NoQueryAfterWaitEnded]_vars
    /\ [](RetrievalFailureYieldsNothing /\ \A i \in Futures : WaitEnded(i) => task[i].pc # "wait")

\* a finished run: one wait ended on FINISHED with a failed retrieval after
\* one poll, the other timed out after two polls
C15_Witness ==
    /\ mainpc = "summary"
    /\ Len(ids) = 2
    /\ obs[1].wait_outcome = "retrieval_failed"
    /\ obs[1].calls["poll"] = 1 /\ obs[1].calls["retrieve"] = 1
    /\ obs[2].wait_outcome = "timed_out"
    /\ obs[2].calls["poll"] = 2 /\ obs[2].calls["retrieve"] = 0

\* the poll count of a wait stays within what max_wait allows: a status query
\* is issued only while less than max_wait has elapsed, and every sleep
\* advances the clock by check_interval
PollsBounded ==
    \A i \in Futures :
        obs[i].calls["poll"] > 0 =>
            (obs[i].calls["poll"] - 1) * check_interval < max_wait

\* list entry i exists and its wait is in the polling loop / has ended
InLoop(i) == i \in Futures /\ task[i].pc = "wait"
LoopLeft(i) == i \in Futures /\ WaitEnded(i)

\* C16: every wait_for_completion call that has entered its loop reaches an
\* end (FINISHED, ERROR / FAILURE or timeout) after a bounded number of
\* polls; every list entry reaches an outcome and the run reaches its summary.
C16_EveryWaitAndRunTerminates ==
    /\ []PollsBounded
    /\ \A i \in 1..MaxIds :
         [](InLoop(i) => <>LoopLeft(i))
    /\ <>(mainpc = "summary" /\ AllDone /\ collected = Futures)

\* a finished run in which a wait used every poll max_wait allows and timed
\* out, and another ended on its first poll
C16_Witness ==
    /\ mainpc = "summary"
    /\ max_wait = MaxWaitIntervals * check_interval
    /\ \E i \in Futures :
         /\ obs[i].wait_outcome = "timed_out"
         /\ obs[i].calls["poll"] = MaxWaitIntervals
    /\ \E i \in Futures :
         /\ obs[i].wait_outcome = "failed"
         /\ obs[i].calls["poll"] = 1

\* the last pass of future i's wait loop ended in time.sleep(check_interval)
Sleeping(i) == task[i].pc = "wait" /\ obs[i].calls["poll"] >= 1

\* the next step of the worker executing future j
FutureStep(j) ==
    \/ Fetch(j) \/ Submit(j) \/ Fail(j) \/ Save(j)
    \/ WaitEnter(j) \/ WaitRaise(j)
    \/ Timeout(j) \/ Finished(j) \/ JobFailed(j) \/ Sleep(j)

\* a sleeping worker keeps no other worker from its next step and no free
\* pool thread from the head of the queue
SleepBlocksOnlyItself ==
    /\ \A i, j \in Futures :
         (i # j /\ Sleeping(i) /\ InPipeline(j)) => ENABLED FutureStep(j)
    /\ \A i \in Futures :
         (Cardinality(Executing) < max_workers /\ HeadOfQueue(i))
            => ENABLED StartFuture(i)

\* list entry i exists and no pool thread has taken it yet / one has
Unstarted(i) == i \in Futures /\ task[i].pc \in {"pending", "queued"}
Started(i) == i \in Futures /\ task[i].pc \notin {"pending", "queued"}

\* C17: a worker sleeping between two polls blocks only itself: every other
\* executing pipeline can take its next step, a free pool thread can take the
\* head of the queue, and every identifier not yet started is eventually
\* started.
C17_SleepBlocksOnlyItself ==
    /\ []SleepBlocksOnlyItself
    /\ \A i \in 1..MaxIds :
         [](Unstarted(i) => <>Started(i))

\* one worker sleeps in its wait loop, a pool thread is free and the other
\* list entry is still queued
C17_Witness ==
    /\ Len(ids) = 2 /\ max_workers = 2
    /\ Sleeping(1)
    /\ task[2].pc = "queued"
    /\ ENABLED StartFuture(2)

====
